---- MODULE Spec2Model ----
(***************************************************************************)
(* Model of the bitdata package (bitdata.go): the bit-level Writer, the    *)
(* Reader and the sticky ReaderError.                                      *)
(*                                                                         *)
(* An unsigned integer of width W is a bit vector: a function from 0..W-1  *)
(* to {0,1}, bit 0 being the least significant one.  Shifts, masks and     *)
(* conversions are the Go operators on that representation, so a value of  *)
(* any container width (8, 16, 32, 64) keeps its exact width.  A BitData   *)
(* is a sequence of 8-bit vectors; Go index idx is TLA+ index idx + 1.     *)
(***************************************************************************)
EXTENDS Integers, Sequences, FiniteSets, TLC

(***************************************************************************)
(* Bounds of the model.                                                    *)
(***************************************************************************)
\* number of write calls issued to one Writer
MaxWrites == 2
\* number of calls issued to one Reader / ReaderError pair
MaxOps == 3
\* length in bytes of the longest buffer handed to NewReader / NewReaderError
MaxBytes == 9

(***************************************************************************)
(* Fixed-width unsigned integers.                                          *)
(***************************************************************************)
Zero(W) == [i \in 0..(W - 1) |-> 0]

\* T(1)
One(W) == [i \in 0..(W - 1) |-> IF i = 0 THEN 1 ELSE 0]

AllOnes(W) == [i \in 0..(W - 1) |-> 1]

\* v << n in v's own width; a count of the width or more gives 0
Shl(v, n) == [i \in DOMAIN v |-> IF i >= n THEN v[i - n] ELSE 0]

\* v >> n (unsigned)
Shr(v, n) == [i \in DOMAIN v |-> IF (i + n) \in DOMAIN v THEN v[i + n] ELSE 0]

BitAnd(a, b) == [i \in DOMAIN a |-> IF a[i] = 1 /\ b[i] = 1 THEN 1 ELSE 0]

BitOr(a, b) == [i \in DOMAIN a |-> IF a[i] = 1 \/ b[i] = 1 THEN 1 ELSE 0]

\* v - 1 in v's own width, wrapping from 0 to the all-ones value
Dec(v) ==
    LET set == {i \in DOMAIN v : v[i] = 1}
    IN  IF set = {} THEN [i \in DOMAIN v |-> 1]
        ELSE LET z == CHOOSE i \in set : \A j \in set : i <= j
             IN  [i \in DOMAIN v |-> IF i < z THEN 1 ELSE IF i = z THEN 0 ELSE v[i]]

\* the conversion T(v) to a type of width W: truncation or zero extension
Conv(v, W) == [i \in 0..(W - 1) |-> IF i \in DOMAIN v THEN v[i] ELSE 0]

\* int8(x): two's complement wrap-around of an 8-bit signed integer
Int8(x) == ((x + 128) % 256) - 128

\* byte(x) of a small integer
Byte(x) == x % 256

\* a mask that takes 1 << W for 2^W: empty for the full width
maskNaive(W, n) == IF n >= W THEN Zero(W) ELSE Dec(Shl(One(W), n))

\* func mask[T integer](n byte) T { return T(1)<<n - 1 }
mask(W, n) == Dec(Shl(One(W), n))

ErrNil == "nil"
ErrBitCountTooBig == "ErrBitCountTooBig"
ErrUnexpectedEOF == "io.ErrUnexpectedEOF"

(***************************************************************************)
(* Writer.                                                                 *)
(***************************************************************************)
NewWriter == [data |-> <<>>, bitsWritten |-> 0]

BitData(w) == w.data

\* the append loop running once more when the value ends on a byte boundary
RECURSIVE writeLoopGE(_, _, _)
writeLoopGE(data, value, bitsRemain) ==
    IF bitsRemain >= 0
    THEN writeLoopGE(Append(data, Conv(value, 8)), Shr(value, 8), Int8(bitsRemain - 8))
    ELSE data

\* for bitsRemain > 0 { *w.data = append(*w.data, byte(value)); value >>= 8; bitsRemain -= 8 }
RECURSIVE writeLoop(_, _, _)
writeLoop(data, value, bitsRemain) ==
    IF bitsRemain > 0
    THEN writeLoop(Append(data, Conv(value, 8)), Shr(value, 8), Int8(bitsRemain - 8))
    ELSE data

\* the partial byte assigned instead of OR-ed
orInPlaceAssign(data, idx, value, ofs) ==
    [data EXCEPT ![idx + 1] = Conv(Shl(value, ofs), 8)]

\* the value OR-ed into the partial byte without the shift to the offset
orInPlaceNoShift(data, idx, value, ofs) ==
    [data EXCEPT ![idx + 1] = BitOr(data[idx + 1], Conv(value, 8))]

\* (*w.data)[idx] = (*w.data)[idx] | byte(value<<ofs)
orInPlace(data, idx, value, ofs) ==
    [data EXCEPT ![idx + 1] = BitOr(data[idx + 1], Conv(Shl(value, ofs), 8))]

\* write[T] past its bitCount == 0 return
writeBits(W, w, v, bitCount) ==
    LET value == BitAnd(v, mask(W, bitCount))
        idx == w.bitsWritten \div 8
        ofs == w.bitsWritten % 8
        bitsRemain == Int8(bitCount)
    IN  IF ofs > 0
        THEN IF idx >= Len(w.data)
             THEN [data |-> w.data, bitsWritten |-> w.bitsWritten, panic |-> TRUE]
             ELSE LET bits == Int8(8 - Byte(ofs))
                      d1 == orInPlace(w.data, idx, value, ofs)
                  IN  [data |-> writeLoop(d1, Shr(value, bits), Int8(bitsRemain - bits)),
                       bitsWritten |-> w.bitsWritten + bitCount,
                       panic |-> FALSE]
        ELSE [data |-> writeLoop(w.data, value, bitsRemain),
              bitsWritten |-> w.bitsWritten + bitCount,
              panic |-> FALSE]

\* write[T]: the Writer after the call; panic is TRUE when the in-place OR
\* indexes the buffer out of range (the Writer is then left as it was)
write(W, w, v, bitCount) ==
    IF bitCount = 0
    THEN [data |-> w.data, bitsWritten |-> w.bitsWritten, panic |-> FALSE]
    ELSE writeBits(W, w, v, bitCount)

Writer_WriteBool(w, v) ==
    IF v THEN write(8, w, One(8), 1) ELSE write(8, w, Zero(8), 1)

Writer_Write8(w, v, bitCount) == write(8, w, v, bitCount)

Writer_Write16(w, v, bitCount) == write(16, w, v, bitCount)

Writer_Write32(w, v, bitCount) == write(32, w, v, bitCount)

Writer_Write64(w, v, bitCount) == write(64, w, v, bitCount)

(***************************************************************************)
(* Reader.                                                                 *)
(***************************************************************************)
NewReader(data) == [data |-> data, bitsRead |-> 0]

\* a Skip that stops at the end of the data
Reader_SkipClamped(r, bitCount) ==
    [r EXCEPT !.bitsRead = IF r.bitsRead + bitCount > 8 * Len(r.data)
                           THEN 8 * Len(r.data) ELSE r.bitsRead + bitCount]

Reader_Skip(r, bitCount) == [r EXCEPT !.bitsRead = r.bitsRead + bitCount]

\* the loop of read[T] ending without an error at the first missing byte
RECURSIVE readLoopLenient(_, _, _, _, _, _)
readLoopLenient(W, data, value, idx, bitsRead, bitsRemain) ==
    IF bitsRemain > 0
    THEN IF idx >= Len(data)
         THEN <<value, TRUE>>
         ELSE LET v == Shl(Conv(data[idx + 1], W), bitsRead)
                  m == Shl(mask(W, Byte(bitsRemain)), bitsRead)
              IN  readLoopLenient(W, data, BitOr(value, BitAnd(v, m)), idx + 1,
                                  Byte(bitsRead + 8), Int8(bitsRemain - 8))
    ELSE <<value, TRUE>>

\* the loop of read[T]: <<value, ok>>, ok FALSE when a byte is missing
RECURSIVE readLoop(_, _, _, _, _, _)
readLoop(W, data, value, idx, bitsRead, bitsRemain) ==
    IF bitsRemain > 0
    THEN IF idx >= Len(data)
         THEN <<Zero(W), FALSE>>
         ELSE LET v == Shl(Conv(data[idx + 1], W), bitsRead)
                  m == Shl(mask(W, Byte(bitsRemain)), bitsRead)
              IN  readLoop(W, data, BitOr(value, BitAnd(v, m)), idx + 1,
                           Byte(bitsRead + 8), Int8(bitsRemain - 8))
    ELSE <<value, TRUE>>

\* the end of data reported after consuming what was left of the buffer
eofResultConsumed(W, r) ==
    [r |-> [r EXCEPT !.bitsRead = 8 * Len(r.data)], value |-> Zero(W), err |-> ErrUnexpectedEOF]

\* return 0, io.ErrUnexpectedEOF: the Reader is as it was
eofResult(W, r) == [r |-> r, value |-> Zero(W), err |-> ErrUnexpectedEOF]

\* the rest of the first byte taken without the mask
firstChunkUnmasked(W, b, ofs, bitCount) == Conv(Shr(b, ofs), W)

\* value = T(r.data[idx]>>ofs) & mask[T](bitCount)
firstChunk(W, b, ofs, bitCount) == BitAnd(Conv(Shr(b, ofs), W), mask(W, bitCount))

\* read[T] past its bitCount == 0 return
readBits(W, r, bitCount) ==
    LET idx == r.bitsRead \div 8
        ofs == r.bitsRead % 8
        bitsRemain == Int8(bitCount)
        eof == eofResult(W, r)
        done(res) == IF res[2]
                     THEN [r |-> [r EXCEPT !.bitsRead = r.bitsRead + bitCount],
                           value |-> res[1], err |-> ErrNil]
                     ELSE eof
    IN  IF ofs > 0
        THEN IF idx >= Len(r.data)
             THEN eof
             ELSE LET value == firstChunk(W, r.data[idx + 1], ofs, bitCount)
                      bits == Int8(8 - Byte(ofs))
                  IN  done(readLoop(W, r.data, value, idx + 1, Byte(bits),
                                    Int8(bitsRemain - bits)))
        ELSE done(readLoop(W, r.data, Zero(W), idx, 0, bitsRemain))

\* the indexes at which the loop of read[T] checks one index too far
RECURSIVE readLoopIndexesOffByOne(_, _, _)
readLoopIndexesOffByOne(data, idx, bitsRemain) ==
    IF bitsRemain > 0
    THEN IF idx > Len(data)
         THEN {}
         ELSE {idx} \cup readLoopIndexesOffByOne(data, idx + 1, Int8(bitsRemain - 8))
    ELSE {}

\* the indexes idx at which the loop of read[T] evaluates r.data[idx]
RECURSIVE readLoopIndexes(_, _, _)
readLoopIndexes(data, idx, bitsRemain) ==
    IF bitsRemain > 0
    THEN IF idx >= Len(data)
         THEN {}
         ELSE {idx} \cup readLoopIndexes(data, idx + 1, Int8(bitsRemain - 8))
    ELSE {}

\* the indexes idx at which read[T] evaluates r.data[idx]
readIndexes(r, bitCount) ==
    IF bitCount = 0 THEN {}
    ELSE
    LET idx == r.bitsRead \div 8
        ofs == r.bitsRead % 8
        bitsRemain == Int8(bitCount)
    IN  IF ofs > 0
        THEN IF idx >= Len(r.data)
             THEN {}
             ELSE {idx} \cup readLoopIndexes(r.data, idx + 1,
                                              Int8(bitsRemain - Int8(8 - Byte(ofs))))
        ELSE readLoopIndexes(r.data, idx, bitsRemain)

\* the indexes at which ReadBool (W = 1) or ReadW evaluates r.data[idx]
Reader_Indexes(r, W, bitCount) ==
    IF W = 1 THEN readIndexes(r, 1)
    ELSE IF bitCount > W THEN {}
    ELSE readIndexes(r, bitCount)

\* read[T] without its return for a bitCount of 0
readNoZeroReturn(W, r, bitCount) == readBits(W, r, bitCount)

\* read[T]: the Reader after the call, the value and the error returned
read(W, r, bitCount) ==
    IF bitCount = 0
    THEN [r |-> r, value |-> Zero(W), err |-> ErrNil]
    ELSE readBits(W, r, bitCount)

\* the value is the bool returned, as 0 or 1 in a byte
Reader_ReadBool(r) ==
    LET res == read(8, r, 1)
    IN  IF res.err # ErrNil
        THEN [r |-> res.r, value |-> FALSE, err |-> res.err]
        ELSE [r |-> res.r, value |-> (res.value # Zero(8)), err |-> ErrNil]

\* Read8 without its check of the bit count
Reader_Read8Unchecked(r, bitCount) == read(8, r, bitCount)

Reader_Read8(r, bitCount) ==
    IF bitCount > 8 THEN [r |-> r, value |-> Zero(8), err |-> ErrBitCountTooBig]
    ELSE read(8, r, bitCount)

Reader_Read16(r, bitCount) ==
    IF bitCount > 16 THEN [r |-> r, value |-> Zero(16), err |-> ErrBitCountTooBig]
    ELSE read(16, r, bitCount)

Reader_Read32(r, bitCount) ==
    IF bitCount > 32 THEN [r |-> r, value |-> Zero(32), err |-> ErrBitCountTooBig]
    ELSE read(32, r, bitCount)

Reader_Read64(r, bitCount) ==
    IF bitCount > 64 THEN [r |-> r, value |-> Zero(64), err |-> ErrBitCountTooBig]
    ELSE read(64, r, bitCount)

(***************************************************************************)
(* ReaderError: a Reader and the first error it returned.                  *)
(***************************************************************************)
NewReaderError(data) == [reader |-> NewReader(data), err |-> ErrNil]

ReaderError_Error(re) == re.err

\* a Skip that does nothing once an error is stored, as the reads do
ReaderError_SkipLatched(re, bitCount) ==
    IF re.err = ErrNil THEN [re EXCEPT !.reader = Reader_Skip(re.reader, bitCount)] ELSE re

ReaderError_Skip(re, bitCount) == [re EXCEPT !.reader = Reader_Skip(re.reader, bitCount)]

\* a sticky read that keeps delegating once an error is stored
stickyReadNoLatch(re, res, zero) ==
    [re |-> [reader |-> res.r, err |-> res.err], value |-> res.value]

\* v, r.err = r.reader.ReadX(...) when r.err == nil; the named result v is
\* the zero value otherwise
stickyRead(re, res, zero) ==
    IF re.err = ErrNil
    THEN [re |-> [reader |-> res.r, err |-> res.err], value |-> res.value]
    ELSE [re |-> re, value |-> zero]

ReaderError_ReadBool(re) == stickyRead(re, Reader_ReadBool(re.reader), FALSE)

ReaderError_Read8(re, bitCount) == stickyRead(re, Reader_Read8(re.reader, bitCount), Zero(8))

\* Read16 delegating to the Reader's Read8
ReaderError_Read16As8(re, bitCount) ==
    stickyRead(re, Reader_Read8(re.reader, bitCount), Zero(16))

ReaderError_Read16(re, bitCount) == stickyRead(re, Reader_Read16(re.reader, bitCount), Zero(16))

ReaderError_Read32(re, bitCount) == stickyRead(re, Reader_Read32(re.reader, bitCount), Zero(32))

ReaderError_Read64(re, bitCount) == stickyRead(re, Reader_Read64(re.reader, bitCount), Zero(64))

(***************************************************************************)
(* Inputs of the model.                                                    *)
(***************************************************************************)
\* a value with an irregular bit pattern, bit 0 set
Pat(W) == [i \in 0..(W - 1) |-> IF i % 3 = 0 \/ i % 7 = 5 THEN 1 ELSE 0]

\* the values handed to a write of container width W
Values(W) == {AllOnes(W), Pat(W)}

\* the bit counts handed to the writes of container width W (0..W)
WriteCounts(W) ==
    CASE W = 8  -> {0, 3, 8}
      [] W = 16 -> {0, 5, 13, 16}
      [] W = 32 -> {0, 32}
      [] W = 64 -> {0, 59, 64}

\* bit counts above the container width W handed to the writes (W+1..255)
OverCounts(W) ==
    CASE W = 8  -> {9, 10, 128}
      [] W = 16 -> {17, 127}
      [] W = 32 -> {33, 140}
      [] W = 64 -> {65, 118, 255}

\* the bit counts handed to the reads of container width W (0..255)
ReadCounts(W) ==
    CASE W = 8  -> 0..9
      [] W = 16 -> {0, 1, 7, 11, 16, 17}
      [] W = 32 -> {0, 3, 20, 32, 33}
      [] W = 64 -> {0, 13, 40, 64, 65, 255}

\* the bit counts handed to Skip
SkipCounts == {0, 1, 3, 8, 12}

\* the byte of value k, 0 <= k < 256
ByteOf(k) == [j \in 0..7 |-> (k \div (2 ^ j)) % 2]

PatData(len) == [i \in 1..len |-> ByteOf((i * 73 + 29) % 256)]

OnesData(len) == [i \in 1..len |-> AllOnes(8)]

\* the buffers handed to NewReader / NewReaderError
Buffers == {PatData(len) : len \in {0, 1, 2, MaxBytes}} \cup {OnesData(2), OnesData(MaxBytes)}

(***************************************************************************)
(* State.                                                                  *)
(*   pc        "writing" while the Writer is in use, "reading" afterwards  *)
(*   w         the Writer                                                  *)
(*   wprev     the Writer before the last write call                       *)
(*   panicked  a write indexed the buffer out of range                     *)
(*   wlog      the writes issued so far: <<container, value, bitCount>>    *)
(*   r         the Reader                                                  *)
(*   re        the ReaderError                                             *)
(*   nread     how many of the logged writes have been read back           *)
(*   nops      how many calls the Reader / ReaderError pair has received   *)
(*   call      the last reader call: its name and its bitCount             *)
(*   rprev     the Reader before the last call                             *)
(*   reprev    the ReaderError before the last call                        *)
(*   rret      what the last Reader call returned: value and error         *)
(*   reret     the value the last ReaderError call returned                *)
(*   firstErr  the first error a Reader call returned, ErrNil before       *)
(*   firstErrAt  the number of the call that returned it, 0 before         *)
(***************************************************************************)
VARIABLES pc, w, wprev, panicked, wlog, r, re, nread, nops, call, rprev, reprev, rret, reret,
          firstErr, firstErrAt

vars == <<pc, w, wprev, panicked, wlog, r, re, nread, nops, call, rprev, reprev, rret, reret,
          firstErr, firstErrAt>>

writerVars == <<w, wprev, panicked, wlog>>

readerVars == <<r, re, nread, nops, call, rprev, reprev, rret, reret, firstErr, firstErrAt>>

NoCall == [op |-> "none", W |-> 0, n |-> 0]

NoReturn == [value |-> FALSE, err |-> ErrNil]

Init ==
    /\ pc = "writing"
    /\ w = NewWriter
    /\ wprev = NewWriter
    /\ panicked = FALSE
    /\ wlog = <<>>
    /\ r = NewReader(<<>>)
    /\ re = NewReaderError(<<>>)
    /\ nread = 0
    /\ nops = 0
    /\ call = NoCall
    /\ rprev = NewReader(<<>>)
    /\ reprev = NewReaderError(<<>>)
    /\ rret = NoReturn
    /\ reret = FALSE
    /\ firstErr = ErrNil
    /\ firstErrAt = 0

(***************************************************************************)
(* Writer calls.                                                           *)
(***************************************************************************)
\* the Writer takes the result res of a write call, logged as <<W, v, n>>
Written(res, W, v, n) ==
    /\ pc = "writing"
    /\ ~panicked
    /\ Len(wlog) < MaxWrites
    /\ w' = [data |-> res.data, bitsWritten |-> res.bitsWritten]
    /\ wprev' = w
    /\ panicked' = res.panic
    /\ wlog' = Append(wlog, [W |-> W, value |-> v, n |-> n])
    /\ UNCHANGED <<pc, readerVars>>

WriteBool ==
    \E v \in BOOLEAN :
        Written(Writer_WriteBool(w, v), 1, IF v THEN One(1) ELSE Zero(1), 1)

Write8 ==
    \E v \in Values(8), n \in WriteCounts(8) : Written(Writer_Write8(w, v, n), 8, v, n)

Write16 ==
    \E v \in Values(16), n \in WriteCounts(16) : Written(Writer_Write16(w, v, n), 16, v, n)

Write32 ==
    \E v \in Values(32), n \in WriteCounts(32) : Written(Writer_Write32(w, v, n), 32, v, n)

Write64 ==
    \E v \in Values(64), n \in WriteCounts(64) : Written(Writer_Write64(w, v, n), 64, v, n)

(***************************************************************************)
(* Reading back what was written (TestBitData, TestBitDataFuzzy): a Reader *)
(* over the Writer's BitData issues reads of the logged widths in order.   *)
(***************************************************************************)
ReadBack ==
    /\ pc = "writing"
    /\ ~panicked
    /\ pc' = "reading"
    /\ r' = NewReader(BitData(w))
    /\ UNCHANGED <<writerVars, re, nread, nops, call, rprev, reprev, rret, reret, firstErr, firstErrAt>>

\* the Reader takes the result res of the read call op(n) of container W
Replayed(res, op, W, n) ==
    /\ r' = res.r
    /\ rprev' = r
    /\ rret' = [value |-> res.value, err |-> res.err]
    /\ call' = [op |-> op, W |-> W, n |-> n]
    /\ nread' = nread + 1
    /\ UNCHANGED <<pc, writerVars, re, nops, reprev, reret, firstErr, firstErrAt>>

CanReplay(W) ==
    /\ pc = "reading"
    /\ nread < Len(wlog)
    /\ wlog[nread + 1].n <= W

ReplayReadBool ==
    /\ CanReplay(1)
    /\ wlog[nread + 1].n = 1
    /\ Replayed(Reader_ReadBool(r), "ReadBool", 1, 1)

ReplayRead8 ==
    /\ CanReplay(8)
    /\ Replayed(Reader_Read8(r, wlog[nread + 1].n), "Read8", 8, wlog[nread + 1].n)

ReplayRead16 ==
    /\ CanReplay(16)
    /\ Replayed(Reader_Read16(r, wlog[nread + 1].n), "Read16", 16, wlog[nread + 1].n)

ReplayRead32 ==
    /\ CanReplay(32)
    /\ Replayed(Reader_Read32(r, wlog[nread + 1].n), "Read32", 32, wlog[nread + 1].n)

ReplayRead64 ==
    /\ CanReplay(64)
    /\ Replayed(Reader_Read64(r, wlog[nread + 1].n), "Read64", 64, wlog[nread + 1].n)

Next ==
    \/ WriteBool
    \/ Write8
    \/ Write16
    \/ Write32
    \/ Write64
    \/ ReadBack
    \/ ReplayReadBool
    \/ ReplayRead8
    \/ ReplayRead16
    \/ ReplayRead32
    \/ ReplayRead64

Spec == Init /\ [][Next]_vars

(***************************************************************************)
(* A Reader and a ReaderError over the same data receive the same calls.   *)
(***************************************************************************)
InitReader ==
    \E data \in Buffers :
        /\ pc = "ops"
        /\ w = NewWriter
        /\ wprev = NewWriter
        /\ panicked = FALSE
        /\ wlog = <<>>
        /\ r = NewReader(data)
        /\ re = NewReaderError(data)
        /\ nread = 0
        /\ nops = 0
        /\ call = NoCall
        /\ rprev = NewReader(data)
        /\ reprev = NewReaderError(data)
        /\ rret = NoReturn
        /\ reret = FALSE
        /\ firstErr = ErrNil
        /\ firstErrAt = 0

\* both readers take the call op(n) of container W: res is what the Reader's
\* method returns, sres what the ReaderError's method returns
Called(res, sres, op, W, n) ==
    /\ pc = "ops"
    /\ nops < MaxOps
    /\ r' = res.r
    /\ rprev' = r
    /\ rret' = [value |-> res.value, err |-> res.err]
    /\ re' = sres.re
    /\ reprev' = re
    /\ reret' = sres.value
    /\ call' = [op |-> op, W |-> W, n |-> n]
    /\ nops' = nops + 1
    /\ firstErr' = IF firstErr = ErrNil THEN res.err ELSE firstErr
    /\ firstErrAt' = IF firstErr = ErrNil /\ res.err # ErrNil THEN nops + 1 ELSE firstErrAt
    /\ UNCHANGED <<pc, writerVars, nread>>

ReadBool == Called(Reader_ReadBool(r), ReaderError_ReadBool(re), "ReadBool", 1, 1)

Read8 ==
    \E n \in ReadCounts(8) : Called(Reader_Read8(r, n), ReaderError_Read8(re, n), "Read8", 8, n)

Read16 ==
    \E n \in ReadCounts(16) :
        Called(Reader_Read16(r, n), ReaderError_Read16(re, n), "Read16", 16, n)

Read32 ==
    \E n \in ReadCounts(32) :
        Called(Reader_Read32(r, n), ReaderError_Read32(re, n), "Read32", 32, n)

Read64 ==
    \E n \in ReadCounts(64) :
        Called(Reader_Read64(r, n), ReaderError_Read64(re, n), "Read64", 64, n)

\* Skip returns nothing
Skip ==
    \E n \in SkipCounts :
        Called([r |-> Reader_Skip(r, n), value |-> FALSE, err |-> ErrNil],
               [re |-> ReaderError_Skip(re, n), value |-> FALSE], "Skip", 0, n)

NextReader ==
    \/ ReadBool
    \/ Read8
    \/ Read16
    \/ Read32
    \/ Read64
    \/ Skip

SpecReader == InitReader /\ [][NextReader]_vars

\* the write calls alone
NextWriter ==
    \/ WriteBool
    \/ Write8
    \/ Write16
    \/ Write32
    \/ Write64

\* both kinds of object: a Writer taking writes, and a Reader / ReaderError
\* pair over a buffer taking reads and skips
SpecAll == (Init \/ InitReader) /\ [][NextWriter \/ NextReader]_vars

(***************************************************************************)
(* Reference notions the properties are stated in.                         *)
(***************************************************************************)
\* v mod 2^n: the n low bits of v, the others 0
LowBits(v, n) == [i \in DOMAIN v |-> IF i < n THEN v[i] ELSE 0]

\* the sum of the bitCounts of the first k logged writes
RECURSIVE SumCounts(_, _)
SumCounts(log, k) == IF k = 0 THEN 0 ELSE SumCounts(log, k - 1) + log[k].n

\* the bit at position p of a buffer: bit (p mod 8) of byte (p div 8)
BufBit(data, p) == data[(p \div 8) + 1][p % 8]

BitLen(data) == 8 * Len(data)

ReadOps == {"ReadBool", "Read8", "Read16", "Read32", "Read64"}

\* the zero value of what the call returns
ZeroValue(c) == IF c.op = "ReadBool" THEN FALSE ELSE Zero(c.W)

(***************************************************************************)
(* C1. Round trip: a Reader over the Writer's BitData that reads the       *)
(* written widths (1..64 bits) in the written order gets no error and, for *)
(* each pair, exactly value mod 2^bitCount.                                *)
(***************************************************************************)
RoundTrip ==
    (pc = "reading" /\ nread > 0 /\ wlog[nread].n >= 1) =>
        /\ rret.err = ErrNil
        /\ IF call.op = "ReadBool"
           THEN rret.value = (wlog[nread].value[0] = 1)
           ELSE rret.value = Conv(LowBits(wlog[nread].value, wlog[nread].n), call.W)

\* a 64-bit value written at a non-aligned cursor has been read back
RoundTripWitness ==
    /\ pc = "reading"
    /\ nread = 2
    /\ wlog[1].n = 3
    /\ wlog[2] = [W |-> 64, value |-> Pat(64), n |-> 64]
    /\ call.op = "Read64"
    /\ rret = [value |-> Pat(64), err |-> ErrNil]

(***************************************************************************)
(* C2. Size law: bitsWritten is the sum of the bitCounts written so far    *)
(* and the buffer holds ceil(bitsWritten / 8) bytes.                       *)
(***************************************************************************)
SizeLaw ==
    /\ w.bitsWritten = SumCounts(wlog, Len(wlog))
    /\ Len(BitData(w)) = (w.bitsWritten + 7) \div 8

\* two writes, the second one crossing a byte boundary and ending inside a byte
SizeLawWitness ==
    /\ Len(wlog) = 2
    /\ wlog[1].n = 5
    /\ wlog[2].n = 13
    /\ w.bitsWritten = 18
    /\ Len(BitData(w)) = 3

(***************************************************************************)
(* C3. Wire format: bit k of the i-th value is stored at buffer position   *)
(* s_i + k, s_i being the sum of the earlier bitCounts, and every bit of   *)
(* the last byte at a position >= bitsWritten is 0.                        *)
(***************************************************************************)
WireFormat ==
    /\ \A i \in 1..Len(wlog) : \A k \in 0..(wlog[i].n - 1) :
           BufBit(BitData(w), SumCounts(wlog, i - 1) + k) = wlog[i].value[k]
    /\ \A p \in w.bitsWritten..(BitLen(BitData(w)) - 1) : BufBit(BitData(w), p) = 0

\* an all-ones value cut to 13 bits follows 3 bits: bytes 0xFD 0xFF, 0 above bit 16
WireFormatWitness ==
    /\ Len(wlog) = 2
    /\ wlog[1] = [W |-> 8, value |-> Pat(8), n |-> 3]
    /\ wlog[2] = [W |-> 16, value |-> AllOnes(16), n |-> 13]
    /\ BitData(w) = <<ByteOf(249), ByteOf(255)>>

\* a read of 8, 16, 32 or 64 bits at most
ReadWOps == {"Read8", "Read16", "Read32", "Read64"}

\* ReadBool, or ReadW with 1 <= bitCount <= W
InContractRead(c) == c.op = "ReadBool" \/ (c.op \in ReadWOps /\ 1 <= c.n /\ c.n <= c.W)

\* what the Reader rd returns for the call c
ReaderCall(rd, c) ==
    CASE c.op = "ReadBool" -> Reader_ReadBool(rd)
      [] c.op = "Read8" -> Reader_Read8(rd, c.n)
      [] c.op = "Read16" -> Reader_Read16(rd, c.n)
      [] c.op = "Read32" -> Reader_Read32(rd, c.n)
      [] c.op = "Read64" -> Reader_Read64(rd, c.n)

(***************************************************************************)
(* C4. Width-overflow guard: Read8/16/32/64 with a bitCount above the      *)
(* container width returns ErrBitCountTooBig and 0 and leaves the Reader   *)
(* as it was, whatever the buffer and the cursor.                          *)
(***************************************************************************)
WidthGuard ==
    (call.op \in ReadWOps /\ call.n > call.W) =>
        /\ rret = [value |-> Zero(call.W), err |-> ErrBitCountTooBig]
        /\ r = rprev

\* Read8(9) with the cursor past the end of the data
WidthGuardWitness ==
    /\ call = [op |-> "Read8", W |-> 8, n |-> 9]
    /\ rprev.bitsRead > BitLen(rprev.data)
    /\ rret.err = ErrBitCountTooBig

(***************************************************************************)
(* C5. End-of-data guard: a ReadBool, or a ReadW with 1 <= bitCount <= W,  *)
(* issued when fewer than bitCount bits remain fails with                  *)
(* io.ErrUnexpectedEOF, returns the zero value and leaves the Reader as it *)
(* was; a following read that fits returns what it would have returned had *)
(* the failed read not been issued.                                        *)
(***************************************************************************)
EndOfDataFails ==
    (pc = "ops" /\ InContractRead(call) /\ BitLen(rprev.data) - rprev.bitsRead < call.n) =>
        /\ rret = [value |-> ZeroValue(call), err |-> ErrUnexpectedEOF]
        /\ r = rprev

\* rprev is the Reader before the failed read, call' the read that follows it
EndOfDataThenFit ==
    (/\ InContractRead(call)
     /\ rret.err = ErrUnexpectedEOF
     /\ nops' = nops + 1
     /\ call'.op \in ReadOps
     /\ rret'.err = ErrNil) =>
        ReaderCall(rprev, call') = [r |-> r', value |-> rret'.value, err |-> rret'.err]

EndOfDataGuard == []EndOfDataFails /\ [][EndOfDataThenFit]_vars

\* a read of more bits than the few that remain before the end of the data
EndOfDataWitness ==
    /\ pc = "ops"
    /\ InContractRead(call)
    /\ rprev.bitsRead > 0
    /\ rprev.bitsRead < BitLen(rprev.data)
    /\ rprev.bitsRead + call.n > BitLen(rprev.data)
    /\ rret.err = ErrUnexpectedEOF

(***************************************************************************)
(* C6. Sticky freeze: once a read of a ReaderError has failed, that read   *)
(* and every later read return the zero value, and Error() stays the error *)
(* of the first failing read: a later call neither clears nor replaces it. *)
(***************************************************************************)
StickyFreeze ==
    (pc = "ops" /\ nops > 0) =>
        /\ (call.op \in ReadOps /\ ReaderError_Error(re) # ErrNil) => reret = ZeroValue(call)
        /\ ReaderError_Error(reprev) # ErrNil => ReaderError_Error(re) = ReaderError_Error(reprev)
        /\ ReaderError_Error(re) # ErrNil => ReaderError_Error(re) = firstErr

\* after a first io.ErrUnexpectedEOF, a Read8(9), which a Reader refuses
\* with ErrBitCountTooBig, has returned 0 and left the error as it was
StickyFreezeWitness ==
    /\ pc = "ops"
    /\ ReaderError_Error(reprev) = ErrUnexpectedEOF
    /\ call = [op |-> "Read8", W |-> 8, n |-> 9]
    /\ rret.err = ErrBitCountTooBig
    /\ reret = Zero(8)
    /\ ReaderError_Error(re) = ErrUnexpectedEOF

(***************************************************************************)
(* C7. Zero-width no-op: a write of 0 bits leaves the Writer's buffer and  *)
(* bitsWritten as they were; a ReadW(0) returns 0 and no error and leaves  *)
(* the Reader as it was, also at or past the end of the data.              *)
(***************************************************************************)
ZeroWidth ==
    /\ (Len(wlog) > 0 /\ wlog[Len(wlog)].n = 0) => w = wprev
    /\ (call.op \in ReadWOps /\ call.n = 0) =>
           /\ rret = [value |-> Zero(call.W), err |-> ErrNil]
           /\ r = rprev

\* a read of 0 bits with the cursor past the end of a non-empty buffer
ZeroWidthWitness ==
    /\ pc = "ops"
    /\ call.op \in ReadWOps
    /\ call.n = 0
    /\ Len(rprev.data) > 0
    /\ rprev.bitsRead > BitLen(rprev.data)
    /\ rret.err = ErrNil

(***************************************************************************)
(* C8. Reader cursor bound, as claimed: after any read that returns no     *)
(* error the cursor does not exceed the bit length of the buffer.          *)
(***************************************************************************)
CursorBoundAnyRead ==
    (pc = "ops" /\ call.op \in ReadOps /\ rret.err = ErrNil) => r.bitsRead <= BitLen(r.data)

(***************************************************************************)
(* C8, amended. After a read of at least one bit that returns no error the *)
(* cursor does not exceed the bit length of the buffer.                    *)
(***************************************************************************)
CursorBound ==
    (pc = "ops" /\ call.op \in ReadOps /\ call.n >= 1 /\ rret.err = ErrNil) =>
        r.bitsRead <= BitLen(r.data)

\* a read that starts inside a byte and ends exactly at the end of the data
CursorBoundWitness ==
    /\ pc = "ops"
    /\ call.op \in ReadOps
    /\ call.n > 8
    /\ rret.err = ErrNil
    /\ rprev.bitsRead % 8 # 0
    /\ r.bitsRead = BitLen(r.data)

(***************************************************************************)
(* C9. Skip, as claimed: Skip(n) adds exactly n to the cursor and changes  *)
(* nothing else, also past the end of the data; every read issued with the *)
(* cursor at or past the end fails with io.ErrUnexpectedEOF.               *)
(***************************************************************************)
SkipAdds ==
    (pc = "ops" /\ call.op = "Skip") =>
        r = [data |-> rprev.data, bitsRead |-> rprev.bitsRead + call.n]

SkipThenAnyReadFails ==
    /\ SkipAdds
    /\ (pc = "ops" /\ call.op \in ReadOps /\ rprev.bitsRead >= BitLen(rprev.data)) =>
           rret.err = ErrUnexpectedEOF

(***************************************************************************)
(* C9, amended. Skip(n) adds exactly n to the cursor and changes nothing   *)
(* else, also past the end of the data; a ReadBool, or a ReadW with        *)
(* 1 <= bitCount <= W, issued with the cursor at or past the end fails     *)
(* with io.ErrUnexpectedEOF.                                               *)
(***************************************************************************)
SkipThenReadFails ==
    /\ SkipAdds
    /\ (pc = "ops" /\ InContractRead(call) /\ rprev.bitsRead >= BitLen(rprev.data)) =>
           rret.err = ErrUnexpectedEOF

\* a read issued with the cursor past the end of a buffer that is not empty
SkipWitness ==
    /\ pc = "ops"
    /\ InContractRead(call)
    /\ Len(rprev.data) > 0
    /\ rprev.bitsRead > BitLen(rprev.data)
    /\ rret.err = ErrUnexpectedEOF

(***************************************************************************)
(* C10. Sticky/direct equivalence: a ReaderError and a Reader given the    *)
(* same data and the same calls return the same values and hold the same   *)
(* cursor up to and including the first call on which the Reader returns   *)
(* an error; Error() is nil as long as no Reader call has returned an      *)
(* error and is the Reader's first error afterwards.                       *)
(***************************************************************************)
StickyDirectEquivalence ==
    pc = "ops" =>
        /\ (firstErrAt = 0 \/ firstErrAt = nops) =>
               /\ reret = rret.value
               /\ re.reader = r
        /\ ReaderError_Error(re) = firstErr

\* the third call is the first one to fail, after a Skip and a read of 11 bits
StickyDirectWitness ==
    /\ pc = "ops"
    /\ nops = 3
    /\ firstErrAt = 3
    /\ call.op = "Read16"
    /\ rprev.bitsRead = 14
    /\ ReaderError_Error(re) = ErrUnexpectedEOF
    /\ re.reader = r

(***************************************************************************)
(* C11. Reader reference semantics: a ReadBool, or a ReadW with            *)
(* 1 <= bitCount <= W, succeeds if and only if cursor + bitCount is at     *)
(* most 8 * len(data); it then returns the bits of the buffer at positions *)
(* cursor .. cursor + bitCount - 1, least significant first, with 0 in the *)
(* result bits from bitCount up, and advances the cursor by bitCount.      *)
(***************************************************************************)
\* the value made of the n buffer bits from position p on, in width W
RefValue(data, p, n, W) == [i \in 0..(W - 1) |-> IF i < n THEN BufBit(data, p + i) ELSE 0]

ReaderReference ==
    (pc = "ops" /\ InContractRead(call)) =>
        LET fits == rprev.bitsRead + call.n <= BitLen(rprev.data)
        IN  /\ (rret.err = ErrNil) <=> fits
            /\ fits =>
                   /\ r = [data |-> rprev.data, bitsRead |-> rprev.bitsRead + call.n]
                   /\ IF call.op = "ReadBool"
                      THEN rret.value = (BufBit(rprev.data, rprev.bitsRead) = 1)
                      ELSE rret.value = RefValue(rprev.data, rprev.bitsRead, call.n, call.W)

\* 40 bits read into a uint64 from inside a byte, across five byte boundaries
ReaderReferenceWitness ==
    /\ pc = "ops"
    /\ call = [op |-> "Read64", W |-> 64, n |-> 40]
    /\ rprev.bitsRead % 8 = 3
    /\ rret.err = ErrNil
    /\ rret.value # Zero(64)
    /\ r.bitsRead = rprev.bitsRead + 40

(***************************************************************************)
(* C12. Writer stability: a write leaves every bit below the cursor it     *)
(* started at as it was.  No byte of the earlier buffer but its last one   *)
(* is modified; the last one changes only when the write starts inside it  *)
(* (cursor not on a byte boundary) and then only gains bits at or above    *)
(* the old offset in the byte.  The earlier buffer is so a bit-prefix of   *)
(* the new one.                                                            *)
(***************************************************************************)
WriterStability ==
    LET old == BitData(wprev)
        new == BitData(w)
        ofs == wprev.bitsWritten % 8
    IN  /\ Len(new) >= Len(old)
        /\ \A p \in 0..(wprev.bitsWritten - 1) : BufBit(new, p) = BufBit(old, p)
        /\ \A i \in 1..Len(old) :
               (i < Len(old) \/ ofs = 0) => new[i] = old[i]
        /\ (Len(old) > 0 /\ ofs > 0) =>
               \A k \in 0..7 :
                   /\ k < ofs => new[Len(old)][k] = old[Len(old)][k]
                   /\ old[Len(old)][k] = 1 => new[Len(old)][k] = 1

\* a write that starts at bit 5 of the last byte, sets bits in it and appends a byte
WriterStabilityWitness ==
    /\ Len(wlog) = 2
    /\ wprev.bitsWritten = 5
    /\ wlog[2].n = 13
    /\ Len(BitData(wprev)) = 1
    /\ Len(BitData(w)) = 3
    /\ BitData(w)[1] # BitData(wprev)[1]
    /\ \A k \in 0..4 : BitData(w)[1][k] = BitData(wprev)[1][k]

(***************************************************************************)
(* C13. Sticky reader after an error: once a ReaderError holds an error,   *)
(* no read (ReadBool, ReadW of any bitCount) changes the underlying cursor *)
(* or the stored error, while Skip(n) still advances the underlying cursor *)
(* by n and leaves the stored error as it is.                              *)
(***************************************************************************)
StickyAfterError ==
    (pc = "ops" /\ nops > 0 /\ ReaderError_Error(reprev) # ErrNil) =>
        /\ call.op \in ReadOps => re = reprev
        /\ call.op = "Skip" =>
               re = [reader |-> [data |-> reprev.reader.data,
                                 bitsRead |-> reprev.reader.bitsRead + call.n],
                     err |-> reprev.err]

\* a Skip(12) issued after the error has moved the cursor
StickyAfterErrorSkipped ==
    /\ pc = "ops"
    /\ ReaderError_Error(reprev) # ErrNil
    /\ call.op = "Skip"
    /\ call.n = 12
    /\ re.reader.bitsRead = reprev.reader.bitsRead + 12
    /\ ReaderError_Error(re) = ReaderError_Error(reprev)

(***************************************************************************)
(* A Writer that also receives writes of more bits than the container      *)
(* holds (TestBitDataTooManyBits).                                         *)
(***************************************************************************)
WriteOver8 ==
    \E v \in Values(8), n \in OverCounts(8) : Written(Writer_Write8(w, v, n), 8, v, n)

WriteOver16 ==
    \E v \in Values(16), n \in OverCounts(16) : Written(Writer_Write16(w, v, n), 16, v, n)

WriteOver32 ==
    \E v \in Values(32), n \in OverCounts(32) : Written(Writer_Write32(w, v, n), 32, v, n)

WriteOver64 ==
    \E v \in Values(64), n \in OverCounts(64) : Written(Writer_Write64(w, v, n), 64, v, n)

NextOver ==
    \/ WriteBool
    \/ Write8
    \/ Write16
    \/ Write32
    \/ Write64
    \/ WriteOver8
    \/ WriteOver16
    \/ WriteOver32
    \/ WriteOver64

SpecOver == Init /\ [][NextOver]_vars

\* the buffer holds ceil(bitsWritten / 8) bytes
WellSized(wr) == Len(BitData(wr)) = (wr.bitsWritten + 7) \div 8

\* the last write asked for more bits than its container holds
LastWriteOver == Len(wlog) > 0 /\ wlog[Len(wlog)].W > 1 /\ wlog[Len(wlog)].n > wlog[Len(wlog)].W

(***************************************************************************)
(* C14. Over-width write: a WriteW(v, bitCount) with bitCount above the    *)
(* container width W (up to 255), issued to a Writer whose buffer holds    *)
(* ceil(bitsWritten / 8) bytes, advances the cursor by bitCount, leaves    *)
(* the buffer ceil(bitsWritten / 8) bytes long, and stores the W bits of v *)
(* at the old cursor followed by bitCount - W bits of 0.                   *)
(***************************************************************************)
OverWidthWrite ==
    (LastWriteOver /\ WellSized(wprev)) =>
        LET e == wlog[Len(wlog)]
        IN  /\ ~panicked
            /\ w.bitsWritten = wprev.bitsWritten + e.n
            /\ WellSized(w)
            /\ \A k \in 0..(e.n - 1) :
                   BufBit(BitData(w), wprev.bitsWritten + k) = IF k < e.W THEN e.value[k] ELSE 0

(***************************************************************************)
(* C15. No out-of-bounds access: in every state reached by in-contract     *)
(* writes, a cursor that is not on a byte boundary lies in the last byte   *)
(* of the buffer, so the in-place OR of the next write indexes an existing *)
(* byte and no write fails; and no Reader call, whatever the buffer, the   *)
(* cursor and the bitCount, indexes the data at len(data) or beyond.       *)
(***************************************************************************)
\* the indexes at which the last Reader call evaluated the data
Indexed == IF call.op \in ReadOps THEN Reader_Indexes(rprev, call.W, call.n) ELSE {}

NoOutOfBounds ==
    /\ ~panicked
    /\ w.bitsWritten % 8 > 0 => w.bitsWritten \div 8 = Len(BitData(w)) - 1
    /\ \A i \in Indexed : i < Len(rprev.data)

\* from a cursor that Skip left inside the last byte, a read takes that byte
\* and stops at the end of the data
NoOutOfBoundsWitness ==
    /\ pc = "ops"
    /\ rprev.bitsRead % 8 # 0
    /\ Len(rprev.data) >= 2
    /\ Indexed = {Len(rprev.data) - 1}
    /\ rret.err = ErrUnexpectedEOF

====
